---- MODULE Spec2Model ----
(***************************************************************************)
(* The media-acquisition job lifecycle of the MP3 downloader:              *)
(*   POST /api/convert        (src/unnamed/part_001)                       *)
(*   GET  /api/progress/{id}  (src/unnamed/part_000)                       *)
(*   GET  /api/download/{id}  (src/unnamed/part_002)                       *)
(* The temp directory is a map from file name to content.  File names are  *)
(* real strings built the way the code builds them (videoId + suffix), so  *)
(* that two identifiers whose names overlap share files exactly as they do *)
(* on disk.  Time is in milliseconds.                                      *)
(*                                                                         *)
(* The specifications share the variables:                                 *)
(*   Spec       POST /convert, the runners and GET /progress.              *)
(*   FairSpec   Spec with fairness on polling and on the runner steps      *)
(*              that are plain code (no external tool or network).         *)
(*   ServeSpec  POST /convert, the runners, GET /download, the reaper      *)
(*              and the clock.                                             *)
(*   ReapSpec   ServeSpec with its own bound on the number of requests.    *)
(*   ProbeSpec  one identifier: POST, the runners, GET /progress and GET   *)
(*              /download, without the clock.                              *)
(*   CacheSpec  the metadata cache of getCachedVideoInfo and its timers;   *)
(*              the temp directory stays empty.                            *)
(*   CacheFairSpec  CacheSpec with fairness on its timers and clock.       *)
(*   HandlerSpec, HandlerFairSpec  POST /convert step by step: capability  *)
(*              probes, metadata lookup, answer.                           *)
(*   ConvSpec   YouTubeConverter.convertToAudio                            *)
(*              (src/lib/youtube-converter.ts).                            *)
(*   ClientSpec the page's one submission, the runner and the polling of   *)
(*              the DownloadCard (src/components/download-card.tsx).       *)
(***************************************************************************)
EXTENDS Integers, Sequences, FiniteSets, TLC

VARIABLES
    files,      \* the temp directory: [existing file name -> content]
    runs,       \* Acquisition Runners started by POST, in start order
    dls,        \* GET /download requests, in arrival order
    timers,     \* pending reaper timers of the download route
    polled,     \* the last GET /progress response and the id it was for
    posted,     \* the last POST /convert request and its response
    posts,      \* POST /convert handlers followed step by step
    convs,      \* YouTubeConverter.convertToAudio calls, in call order
    card,       \* the DownloadCard the client shows
    submitted,  \* identifiers that were sent to POST /convert
    now,        \* the clock, ms
    cache,      \* videoInfoCache: [cached videoId -> info]
    lookups,    \* getCachedVideoInfo calls, in start order
    ctimers     \* pending timers of getCachedVideoInfo (timeouts, evictions)

vars == <<files, runs, dls, timers, polled, posted, posts, convs, card,
          submitted, now, cache, lookups, ctimers>>

\* what the POST handler, the converter library and the client add
sideVars  == <<posts, convs, card>>

fileVars  == <<files, runs, dls, timers, polled, posted, posts, convs, card,
               submitted>>
cacheVars == <<cache, lookups, ctimers>>

----------------------------------------------------------------------------
(* Bounds of the model *)

MaxRuns  == 2   \* POST requests that start a runner
MaxReqs  == 3   \* POST and GET /download requests together
MaxTicks == 2   \* the clock stops after this many cleanup delays

\* identifiers sent by clients; "a_temp" is "a" followed by the suffix that
\* fastDownloadOriginal appends to the id
Ids == {"a", "a_temp"}

\* extensions the external tool is made to produce in this model
ToolExts == {".mp3", ".m4a"}

----------------------------------------------------------------------------
(* Program constants and pure helpers *)

CLEANUP_DELAY == 5 * 60 * 1000

\* the clock of the model moves from deadline to deadline, and by one
\* cleanup delay at a time when no timer is pending
TickStep == CLEANUP_DELAY
MaxTime  == MaxTicks * CLEANUP_DELAY

\* createFastDemo: a 44-byte WAV header followed by 16-bit samples
DemoSampleRate == 22050
DemoDuration   == 10
DemoLen == 44 + (DemoSampleRate * DemoDuration) * 2

\* path.join(TEMP_DIR, `${videoId}${ext}`), relative to TEMP_DIR
CanonPath(id, ext) == id \o ext

\* `${TEMP_DIR}/${videoId}_temp.%(ext)s` with the tool's extension filled in
TempPath(id, ext) == id \o "_temp" \o ext

RemoveFile(fs, p) == [q \in (DOMAIN fs) \ {p} |-> fs[q]]

PutFile(fs, p, c) == [q \in (DOMAIN fs) \cup {p} |-> IF q = p THEN c ELSE fs[q]]

\* ext.replace(".", "") on the extensions the routes know
StripDot(ext) ==
    CASE ext = ".mp3"  -> "mp3"
      [] ext = ".m4a"  -> "m4a"
      [] ext = ".webm" -> "webm"
      [] ext = ".opus" -> "opus"
      [] ext = ".aac"  -> "aac"
      [] ext = ".wav"  -> "wav"
      [] OTHER         -> ext

\* the first extension of the list, in order, whose file exists; "" if none
RECURSIVE FirstExisting(_, _, _)
FirstExisting(fs, base, exts) ==
    IF exts = <<>> THEN ""
    ELSE IF (base \o Head(exts)) \in DOMAIN fs THEN Head(exts)
    ELSE FirstExisting(fs, base, Tail(exts))

\* bytes a run's external tool or online service delivers: the run number,
\* so that the bytes of different runs differ in length
OutLen(r) == r

\* the full byte length of a piece of content
FullLen(c) == IF c.src = "demo" THEN DemoLen ELSE OutLen(c.run)

IsFull(c) == c.bytes = FullLen(c)

\* a writer finishes writing: the bytes go to the file it opened, wherever
\* that file has been moved to meanwhile
CompleteWrite(fs, r) ==
    [q \in DOMAIN fs |->
        IF fs[q].run = r THEN [fs[q] EXCEPT !.bytes = FullLen(fs[q])] ELSE fs[q]]

NoContent == [run |-> 0, bytes |-> 0, src |-> "none"]

----------------------------------------------------------------------------
(* GET /api/progress/{videoId} *)

ProgressExts == <<".mp3", ".m4a", ".webm", ".opus">>

ProgressResp(fs, id) ==
    LET ext == FirstExisting(fs, id, ProgressExts) IN
    IF ext # ""
    THEN [exists |-> TRUE, ready |-> TRUE,
          size |-> fs[CanonPath(id, ext)].bytes, format |-> StripDot(ext),
          status |-> ""]
    ELSE [exists |-> FALSE, ready |-> FALSE, size |-> 0, format |-> "",
          status |-> "processing"]

Poll(id) ==
    /\ polled' = [id |-> id, resp |-> ProgressResp(files, id)]
    /\ UNCHANGED <<files, runs, dls, timers, posted, submitted, now>>
    /\ UNCHANGED sideVars
    /\ UNCHANGED cacheVars

----------------------------------------------------------------------------
(* POST /api/convert and the Acquisition Runner *)

\* the dispatch without its second flag: ffmpeg is taken for granted
StrategyIgnoresFFmpeg(hasYtDlp, hasFFmpeg) ==
    IF hasYtDlp THEN 1 ELSE 3

\* fastDownloadAudio: which strategy runs for the probed capability flags
Strategy(hasYtDlp, hasFFmpeg) ==
    IF hasYtDlp /\ hasFFmpeg THEN 1
    ELSE IF hasYtDlp THEN 2
    ELSE 3

\* a strategy that threw is called again from its first step
EndedRetries(run, pc, t) ==
    IF pc = "failed"
    THEN [run EXCEPT !.pc = IF run.strategy = 3 THEN "race" ELSE "exec",
                     !.file = "", !.dest = "", !.src = "tool"]
    ELSE [run EXCEPT !.pc = pc, !.file = "", !.dest = "", !.doneAt = t]

\* a strategy returned (at time t) or threw: its locals are gone; src keeps
\* what kind of bytes a finished run delivered
Ended(run, pc, t) ==
    [run EXCEPT !.pc = pc, !.file = "", !.dest = "", !.doneAt = t,
                !.src = IF pc = "done" THEN @ ELSE "tool"]

\* quickEnvironmentCheck: the label of the probed environment
EnvType(hasYtDlp, hasFFmpeg) ==
    IF hasYtDlp /\ hasFFmpeg THEN "full"
    ELSE IF hasYtDlp THEN "ytdlp-only"
    ELSE "online"

\* the run POST starts: fastDownloadAudio dispatches on the flags of the
\* environment record; type is the label it logs, strategy the function it
\* calls (1 superFastDownloadWithFFmpeg, 2 fastDownloadOriginal, 3
\* onlineDownload)
NewRun(id, hasYtDlp, hasFFmpeg) ==
    [id |-> id, hasYtDlp |-> hasYtDlp, hasFFmpeg |-> hasFFmpeg,
     type |-> EnvType(hasYtDlp, hasFFmpeg),
     strategy |-> Strategy(hasYtDlp, hasFFmpeg),
     pc |-> IF Strategy(hasYtDlp, hasFFmpeg) = 3 THEN "race" ELSE "exec",
     file |-> "", dest |-> "", src |-> "tool", doneAt |-> 0]

StrategyOf(r) == Strategy(runs[r].hasYtDlp, runs[r].hasFFmpeg)

\* ConvertSchema.parse: videoId is a non-empty string and url is a
\* well-formed URL (urlOk: what z.string().url() says of the url sent)
ConvertSchema(videoId, urlOk) == videoId # "" /\ urlOk

\* the response POST builds while the runner is still pending
PostResponseAwaited(id, valid, hasInfo) ==
    IF ~ valid THEN [status |-> 500, id |-> "", state |-> "error"]
    ELSE IF ~ hasInfo THEN [status |-> 400, id |-> "", state |-> "error"]
    ELSE [status |-> 200, id |-> id, state |-> "completed"]

\* the response of POST: ConvertSchema.parse throws into the catch (500),
\* null metadata answers 400, else quickResponse (200, "processing")
PostResponse(id, valid, hasInfo) ==
    IF ~ valid THEN [status |-> 500, id |-> "", state |-> "error"]
    ELSE IF ~ hasInfo THEN [status |-> 400, id |-> "", state |-> "error"]
    ELSE [status |-> 200, id |-> id, state |-> "processing"]

\* the runner is started although the metadata lookup returned null
StartsRunnerUnchecked(valid, hasInfo) == valid

\* line 46 is reached: the body parsed and videoInfo is not null
StartsRunner(valid, hasInfo) == valid /\ hasInfo

\* quickResponse.format: the format the 200 response announces
QuickFormat(hasFFmpeg) == IF hasFFmpeg THEN "mp3" ELSE "m4a"

\* POST: body validation, the capability probe and the metadata lookup are
\* inputs here (valid, the two flags, hasInfo; the lookup is not reached
\* when the body is invalid); the runner is started only after all three,
\* and the handler does not wait for it
PostFinal(id, valid, hasYtDlp, hasFFmpeg, hasInfo) ==
    /\ Len(runs) < MaxRuns
    /\ Len(runs) + Len(dls) < MaxReqs
    /\ submitted' = submitted \cup {id}
    /\ runs' = IF StartsRunner(valid, hasInfo)
               THEN Append(runs, NewRun(id, hasYtDlp, hasFFmpeg))
               ELSE runs
    /\ posted' = [id |-> id, valid |-> valid, hasInfo |-> valid /\ hasInfo,
                  resp |-> PostResponse(id, valid, hasInfo),
                  run |-> IF StartsRunner(valid, hasInfo)
                          THEN Len(runs) + 1 ELSE 0,
                  format |-> IF valid /\ hasInfo
                             THEN QuickFormat(hasFFmpeg) ELSE ""]
    /\ UNCHANGED <<files, dls, timers, polled, now>>
    /\ UNCHANGED cacheVars

\* POST as one step, its awaited inputs given
Post(id, valid, hasYtDlp, hasFFmpeg, hasInfo) ==
    /\ PostFinal(id, valid, hasYtDlp, hasFFmpeg, hasInfo)
    /\ UNCHANGED sideVars

\* the output name the external tool writes for its -o template
ToolTarget(r, ext) ==
    IF StrategyOf(r) = 1 THEN CanonPath(runs[r].id, ext)
    ELSE TempPath(runs[r].id, ext)

\* yt-dlp (strategies 1 and 2) creates its output file
ToolOpen(r, ext) ==
    /\ r \in 1..Len(runs)
    /\ runs[r].pc = "exec"
    /\ files' = PutFile(files, ToolTarget(r, ext),
                        [run |-> r, bytes |-> 0, src |-> "tool"])
    /\ runs' = [runs EXCEPT ![r].pc = "toolwrite", ![r].file = ToolTarget(r, ext)]
    /\ UNCHANGED <<dls, timers, polled, posted, submitted, now>>
    /\ UNCHANGED sideVars
    /\ UNCHANGED cacheVars

\* yt-dlp finishes writing and exits with status 0: execAsync resolves
ToolExit(r) ==
    /\ r \in 1..Len(runs)
    /\ runs[r].pc = "toolwrite"
    /\ files' = CompleteWrite(files, r)
    /\ runs' = [runs EXCEPT ![r].pc = "find"]
    /\ UNCHANGED <<dls, timers, polled, posted, submitted, now>>
    /\ UNCHANGED sideVars
    /\ UNCHANGED cacheVars

\* yt-dlp exits with status 0 without leaving a file of a known extension
ToolExitNoFile(r) ==
    /\ r \in 1..Len(runs)
    /\ runs[r].pc = "exec"
    /\ runs' = [runs EXCEPT ![r].pc = "find"]
    /\ UNCHANGED <<files, dls, timers, polled, posted, submitted, now>>
    /\ UNCHANGED sideVars
    /\ UNCHANGED cacheVars

\* yt-dlp exits with an error: execAsync rejects, the strategy throws and
\* POST's .catch logs it; whatever the tool wrote stays
ToolFail(r) ==
    /\ r \in 1..Len(runs)
    /\ runs[r].pc \in {"exec", "toolwrite"}
    /\ runs' = [runs EXCEPT ![r] = Ended(@, "failed", 0)]
    /\ UNCHANGED <<files, dls, timers, polled, posted, submitted, now>>
    /\ UNCHANGED sideVars
    /\ UNCHANGED cacheVars

RenameExts == <<".mp3", ".m4a", ".webm", ".opus">>

\* superFastDownloadWithFFmpeg after exec: findAndRenameOutputFile up to
\* the call of fs.move
FindAndRenameOutputFile(r) ==
    LET id  == runs[r].id
        ext == FirstExisting(files, id, RenameExts) IN
    /\ r \in 1..Len(runs)
    /\ runs[r].pc = "find"
    /\ StrategyOf(r) = 1
    /\ runs' = IF ext = "" THEN [runs EXCEPT ![r] = Ended(@, "failed", 0)]
               ELSE IF ext = ".mp3"
               THEN [runs EXCEPT ![r] = Ended(@, "done", now)]
               ELSE [runs EXCEPT ![r].pc = "move",
                                 ![r].file = CanonPath(id, ext),
                                 ![r].dest = CanonPath(id, ".mp3")]
    /\ UNCHANGED <<files, dls, timers, polled, posted, submitted, now>>
    /\ UNCHANGED sideVars
    /\ UNCHANGED cacheVars

ActualExts == <<".m4a", ".webm", ".mp3", ".opus">>

\* fastDownloadOriginal after exec: findActualDownloadedFile up to the call
\* of fs.move
FindActualDownloadedFile(r) ==
    LET id  == runs[r].id
        ext == FirstExisting(files, id \o "_temp", ActualExts) IN
    /\ r \in 1..Len(runs)
    /\ runs[r].pc = "find"
    /\ StrategyOf(r) = 2
    /\ runs' = IF ext = "" THEN [runs EXCEPT ![r] = Ended(@, "failed", 0)]
               ELSE [runs EXCEPT ![r].pc = "move",
                                 ![r].file = TempPath(id, ext),
                                 ![r].dest = CanonPath(id, ext)]
    /\ UNCHANGED <<files, dls, timers, polled, posted, submitted, now>>
    /\ UNCHANGED sideVars
    /\ UNCHANGED cacheVars

\* fs.move(src, dest) of fs-extra without {overwrite: true}: it throws when
\* dest exists or src is gone, else renames
Move(r) ==
    LET src == runs[r].file
        dst == runs[r].dest IN
    /\ r \in 1..Len(runs)
    /\ runs[r].pc = "move"
    /\ IF src \notin DOMAIN files \/ dst \in DOMAIN files
       THEN /\ runs' = [runs EXCEPT ![r] = Ended(@, "failed", 0)]
            /\ UNCHANGED files
       ELSE /\ files' = PutFile(RemoveFile(files, src), dst, files[src])
            /\ runs' = [runs EXCEPT ![r] = Ended(@, "done", now)]
    /\ UNCHANGED <<dls, timers, polled, posted, submitted, now>>
    /\ UNCHANGED sideVars
    /\ UNCHANGED cacheVars

\* onlineDownload: Promise.race over the services settles; a rejection
\* goes to the catch block, which synthesises the demo audio
CobaltSettles(r, ok) ==
    /\ r \in 1..Len(runs)
    /\ runs[r].pc = "race"
    /\ runs' = [runs EXCEPT ![r].pc = "write",
                            ![r].src = IF ok THEN "cobalt" ELSE "demo",
                            ![r].dest = CanonPath(runs[r].id, ".mp3")]
    /\ UNCHANGED <<files, dls, timers, polled, posted, submitted, now>>
    /\ UNCHANGED sideVars
    /\ UNCHANGED cacheVars

\* fs.writeFile(outputPath, ...) opens the file for writing: it is created
\* or truncated at its final name
WriteOpen(r) ==
    /\ r \in 1..Len(runs)
    /\ runs[r].pc = "write"
    /\ files' = PutFile(files, runs[r].dest,
                        [run |-> r, bytes |-> 0, src |-> runs[r].src])
    /\ runs' = [runs EXCEPT ![r].pc = "writing"]
    /\ UNCHANGED <<dls, timers, polled, posted, submitted, now>>
    /\ UNCHANGED sideVars
    /\ UNCHANGED cacheVars

\* fs.writeFile has written all bytes and resolves
WriteClose(r) ==
    /\ r \in 1..Len(runs)
    /\ runs[r].pc = "writing"
    /\ files' = CompleteWrite(files, r)
    /\ runs' = [runs EXCEPT ![r] = Ended(@, "done", now)]
    /\ UNCHANGED <<dls, timers, polled, posted, submitted, now>>
    /\ UNCHANGED sideVars
    /\ UNCHANGED cacheVars

----------------------------------------------------------------------------
(* GET /api/download/{videoId} and its cleanup timer (the reaper) *)

DownloadExts == <<".mp3", ".m4a", ".webm", ".opus", ".aac", ".wav">>

\* findVideoFile: the path of the first existing file, "" for null
FindVideoFile(fs, id) ==
    LET ext == FirstExisting(fs, id, DownloadExts) IN
    IF ext = "" THEN "" ELSE CanonPath(id, ext)

\* the delay forgotten: a timer of 0 ms
CleanupDueNoDelay(t) == t

\* when the timer set at time t fires
CleanupDue(t) == t + CLEANUP_DELAY

\* getContentType on the extensions findVideoFile can return
GetContentType(ext) ==
    CASE ext = ".mp3"  -> "audio/mpeg"
      [] ext = ".m4a"  -> "audio/mp4"
      [] ext = ".webm" -> "audio/webm"
      [] ext = ".opus" -> "audio/opus"
      [] ext = ".aac"  -> "audio/aac"
      [] ext = ".wav"  -> "audio/wav"
      [] OTHER         -> "audio/mpeg"

\* the request arrives and findVideoFile runs: 404 when it returns null; ext
\* is path.extname of the path found
DlFind(id) ==
    LET p == FindVideoFile(files, id) IN
    /\ Len(runs) + Len(dls) < MaxReqs
    /\ dls' = Append(dls,
                [id |-> id, pc |-> IF p = "" THEN "done" ELSE "read",
                 status |-> IF p = "" THEN 404 ELSE 0,
                 path |-> p, ext |-> FirstExisting(files, id, DownloadExts),
                 ctype |-> "", body |-> NoContent, size |-> 0,
                 issuedAt |-> now, servedAt |-> 0,
                 seen |-> {i \in 1..Len(dls) : dls[i].pc = "done"}])
    /\ UNCHANGED <<files, runs, timers, polled, posted, submitted, now>>
    /\ UNCHANGED sideVars
    /\ UNCHANGED cacheVars

\* fs.readFile(filePath): it throws when the file is gone (response 500)
DlRead(d) ==
    /\ d \in 1..Len(dls)
    /\ dls[d].pc = "read"
    /\ dls' = IF dls[d].path \in DOMAIN files
              THEN [dls EXCEPT ![d].pc = "stat", ![d].body = files[dls[d].path]]
              ELSE [dls EXCEPT ![d].pc = "done", ![d].status = 500]
    /\ UNCHANGED <<files, runs, timers, polled, posted, submitted, now>>
    /\ UNCHANGED sideVars
    /\ UNCHANGED cacheVars

\* fs.stat(filePath), then the response is built (body: the buffer read,
\* Content-Length: stats.size, Content-Type: by extension) and the cleanup
\* timer is set for the served path
DlStat(d) ==
    /\ d \in 1..Len(dls)
    /\ dls[d].pc = "stat"
    /\ IF dls[d].path \in DOMAIN files
       THEN /\ dls' = [dls EXCEPT ![d].pc = "done", ![d].status = 200,
                                  ![d].size = files[dls[d].path].bytes,
                                  ![d].ctype = GetContentType(dls[d].ext),
                                  ![d].servedAt = now]
            /\ timers' = timers \cup
                    {[path |-> dls[d].path, due |-> CleanupDue(now), by |-> d]}
       ELSE /\ dls' = [dls EXCEPT ![d].pc = "done", ![d].status = 500]
            /\ UNCHANGED timers
    /\ UNCHANGED <<files, runs, polled, posted, submitted, now>>
    /\ UNCHANGED sideVars
    /\ UNCHANGED cacheVars

\* the cleanup timer fires: the path is removed if it exists
ReaperFire(t) ==
    /\ t \in timers
    /\ t.due <= now
    /\ timers' = timers \ {t}
    /\ files' = IF t.path \in DOMAIN files THEN RemoveFile(files, t.path)
                ELSE files
    /\ UNCHANGED <<runs, dls, polled, posted, submitted, now>>
    /\ UNCHANGED sideVars
    /\ UNCHANGED cacheVars

----------------------------------------------------------------------------
(* The DownloadCard component *)

MaxPolls == 3   \* the clock of the card stops after this many fetches

SetMin(S) == CHOOSE x \in S : \A y \in S : x <= y

POLL_START == 3000   \* setTimeout(..., 3000)
POLL_EVERY == 3000   \* setInterval(checkProgress, 3000)

\* a fetch of /api/progress/{id}: sent, then handled by the route (ok is
\* response.ok, ready is data.ready), then delivered to checkProgress
NoResp == [handled |-> FALSE, ok |-> FALSE, ready |-> FALSE]

\* no card is shown.  timeout and interval are the times at which the two
\* timers are due (-1: not pending), inflight the fetches not yet delivered,
\* sent their number so far, got the last response delivered
NoCard == [shown |-> FALSE, id |-> "", fileReady |-> FALSE, timeout |-> -1,
           interval |-> -1, inflight |-> <<>>, sent |-> 0, got |-> NoResp,
           downloading |-> FALSE]

CardUnchanged ==
    /\ UNCHANGED <<files, runs, dls, timers, polled, posted, submitted, posts,
                   convs>>
    /\ UNCHANGED cacheVars

\* the page renders the card with the body of a 200 response: fileReady
\* starts as status !== "processing"; once mounted, the polling effect sets
\* its timeout
CardShown ==
    /\ ~ card.shown
    /\ posted.resp.status = 200
    /\ card' = [NoCard EXCEPT
                   !.shown = TRUE,
                   !.id = posted.resp.id,
                   !.fileReady = (posted.resp.state # "processing"),
                   !.timeout = IF posted.resp.state = "processing"
                               THEN now + POLL_START ELSE -1]
    /\ UNCHANGED now
    /\ CardUnchanged

\* the timeout fires: checkProgress() is called and the interval is set
PollTimeout ==
    /\ card.shown
    /\ card.timeout = now
    /\ card' = [card EXCEPT !.timeout = -1,
                            !.interval = now + POLL_EVERY,
                            !.inflight = Append(@, NoResp),
                            !.sent = @ + 1]
    /\ UNCHANGED now
    /\ CardUnchanged

\* the interval fires: checkProgress() is called again
PollInterval ==
    /\ card.shown
    /\ card.interval = now
    /\ card' = [card EXCEPT !.interval = now + POLL_EVERY,
                            !.inflight = Append(@, NoResp),
                            !.sent = @ + 1]
    /\ UNCHANGED now
    /\ CardUnchanged

\* the progress route handles a fetch of the card: its answer is what the
\* temp directory holds now, or a failure (status 500, or no response)
ProgressHandled(k, ok) ==
    /\ card.shown
    /\ k \in 1..Len(card.inflight)
    /\ ~ card.inflight[k].handled
    /\ card' = [card EXCEPT !.inflight[k] =
                   [handled |-> TRUE, ok |-> ok,
                    ready |-> ok /\ ProgressResp(files, card.id).ready]]
    /\ UNCHANGED now
    /\ CardUnchanged

\* any response counts as readiness
ReadyInAny(resp) == TRUE

\* response.ok && data.ready
ReadyIn(resp) == resp.ok /\ resp.ready

DropAt(seq, k) == SubSeq(seq, 1, k - 1) \o SubSeq(seq, k + 1, Len(seq))

\* checkProgress continues with the response of its fetch
ProgressDelivered(k) ==
    /\ card.shown
    /\ k \in 1..Len(card.inflight)
    /\ card.inflight[k].handled
    /\ card' = [card EXCEPT
                   !.inflight = DropAt(@, k),
                   !.got = card.inflight[k],
                   !.fileReady = IF ReadyIn(card.inflight[k]) THEN TRUE ELSE @,
                   !.interval = IF ReadyIn(card.inflight[k]) THEN -1 ELSE @]
    /\ UNCHANGED now
    /\ CardUnchanged

\* handleDownload: nothing but an alert while the file is not ready
HandleDownload ==
    /\ card.shown
    /\ ~ card.downloading
    /\ card' = [card EXCEPT !.downloading = card.fileReady]
    /\ UNCHANGED now
    /\ CardUnchanged

\* deadlines of the card's timers
CardDeadlines == {card.timeout, card.interval} \ {-1}

\* time passes up to the next deadline of the card
CardTick ==
    /\ card.shown
    /\ card.sent < MaxPolls
    /\ CardDeadlines # {}
    /\ \A d \in CardDeadlines : d > now
    /\ now' = SetMin(CardDeadlines)
    /\ UNCHANGED fileVars
    /\ UNCHANGED cacheVars

----------------------------------------------------------------------------
(* The clock *)

\* deadlines of all pending timers
Deadlines == {t.due : t \in timers} \cup {t.due : t \in ctimers}

\* time passes, up to the next deadline: a timer that is due fires before
\* the clock moves on
TickBy(step, max) ==
    /\ \A d \in Deadlines : d > now
    /\ now < max
    /\ LET to == IF now + step > max THEN max ELSE now + step
       IN now' = IF Deadlines # {} /\ SetMin(Deadlines) < to
                 THEN SetMin(Deadlines) ELSE to
    /\ UNCHANGED fileVars
    /\ UNCHANGED cacheVars

Tick == TickBy(TickStep, MaxTime)

----------------------------------------------------------------------------
(* The artifact lifecycle *)

Init ==
    /\ files = <<>>
    /\ runs = <<>>
    /\ dls = <<>>
    /\ timers = {}
    /\ polled = [id |-> "", resp |-> ProgressResp(<<>>, "")]
    /\ posted = [id |-> "", valid |-> FALSE, hasInfo |-> FALSE,
                 resp |-> [status |-> 0, id |-> "", state |-> ""], run |-> 0,
                 format |-> ""]
    /\ posts = <<>>
    /\ convs = <<>>
    /\ card = NoCard
    /\ submitted = {}
    /\ now = 0
    /\ cache = <<>>
    /\ lookups = <<>>
    /\ ctimers = {}

\* the steps of the Acquisition Runners
RunnerNext ==
    \/ \E r \in 1..MaxRuns : \E ext \in ToolExts : ToolOpen(r, ext)
    \/ \E r \in 1..MaxRuns : ToolExit(r)
    \/ \E r \in 1..MaxRuns : ToolExitNoFile(r)
    \/ \E r \in 1..MaxRuns : ToolFail(r)
    \/ \E r \in 1..MaxRuns : FindAndRenameOutputFile(r)
    \/ \E r \in 1..MaxRuns : FindActualDownloadedFile(r)
    \/ \E r \in 1..MaxRuns : Move(r)
    \/ \E r \in 1..MaxRuns : \E ok \in BOOLEAN : CobaltSettles(r, ok)
    \/ \E r \in 1..MaxRuns : WriteOpen(r)
    \/ \E r \in 1..MaxRuns : WriteClose(r)

\* Spec: POST, the runners and the status surface
Next ==
    \/ \E id \in Ids \cup {""} : \E urlOk, yt, ff, hasInfo \in BOOLEAN :
          Post(id, ConvertSchema(id, urlOk), yt, ff, hasInfo)
    \/ RunnerNext
    \/ \E id \in Ids : Poll(id)

Spec == Init /\ [][Next]_vars

\* ServeSpec: POST, the runners, the file server, the reaper and the clock
ServeIds == {"a"}

\* the steps of the file server, the reaper and the clock
ServerNext ==
    \/ \E d \in 1..MaxReqs : DlRead(d)
    \/ \E d \in 1..MaxReqs : DlStat(d)
    \/ \E t \in timers : ReaperFire(t)
    \/ Tick

ServeNext ==
    \/ \E id \in ServeIds \cup {""} : \E urlOk, yt, ff, hasInfo \in BOOLEAN :
          Post(id, ConvertSchema(id, urlOk), yt, ff, hasInfo)
    \/ \E id \in ServeIds : DlFind(id)
    \/ RunnerNext
    \/ ServerNext

ServeSpec == Init /\ [][ServeNext]_vars

----------------------------------------------------------------------------
(* getCachedVideoInfo and videoInfoCache *)

MaxLookups == 2   \* calls of getCachedVideoInfo

\* the videoId the lookups are for
CacheIds == {"a"}

CACHE_TTL      == 60 * 60 * 1000
YTDLP_TIMEOUT  == 5000
OEMBED_TIMEOUT == 3000

CacheMaxTime == MaxTicks * CACHE_TTL

\* the cache asked for a key it never holds (the url instead of the videoId)
CacheHasWrongKey(c, id) == FALSE

\* videoInfoCache.has(videoId)
CacheHas(c, id) == id \in DOMAIN c

\* the result of lookup l is settled: the function returns
Returns(l, result) ==
    [lookups EXCEPT ![l].pc = "done", ![l].result = result]

\* the fallback left out: null is returned when yt-dlp fails
SkipOEmbed(l) ==
    /\ lookups' = Returns(l, "null")
    /\ UNCHANGED <<cache, ctimers>>

\* lines 136-144: the oEmbed request is sent, racing a 3 s timer
StartOEmbed(l) ==
    /\ lookups' = [lookups EXCEPT ![l].pc = "oembed", ![l].calls = @ + 1]
    /\ ctimers' = ctimers \cup
          {[kind |-> "oembedTimeout", l |-> l, id |-> lookups[l].id,
            due |-> now + OEMBED_TIMEOUT]}
    /\ UNCHANGED cache

\* lines 156-163: videoInfoCache.set, the eviction timer, return videoInfo;
\* at and by record when and by which call the entry was stored
StoreInfo(l, info) ==
    /\ cache' = [k \in (DOMAIN cache) \cup {lookups[l].id} |->
                    IF k = lookups[l].id
                    THEN [info |-> info, at |-> now, by |-> l]
                    ELSE cache[k]]
    /\ ctimers' = ctimers \cup
          {[kind |-> "evict", l |-> l, id |-> lookups[l].id,
            due |-> now + CACHE_TTL]}
    /\ lookups' = Returns(l, info)

\* the call: a cache hit returns the entry; a miss starts yt-dlp (racing a
\* 5 s timer) when it is available, else the oEmbed request
LookupStarts(id, hasYtDlp) ==
    LET l == Len(lookups) + 1
        new == [id |-> id, hasYtDlp |-> hasYtDlp, pc |-> "start",
                result |-> "null", hit |-> FALSE, from |-> 0, calls |-> 0,
                startedAt |-> now] IN
    /\ Len(lookups) < MaxLookups
    /\ IF CacheHas(cache, id)
       THEN /\ lookups' = Append(lookups,
                    [new EXCEPT !.pc = "done", !.result = cache[id].info,
                                !.hit = TRUE, !.from = cache[id].by])
            /\ UNCHANGED <<cache, ctimers>>
       ELSE IF hasYtDlp
       THEN /\ lookups' = Append(lookups, [new EXCEPT !.pc = "ytdlp", !.calls = 1])
            /\ ctimers' = ctimers \cup
                  {[kind |-> "ytdlpTimeout", l |-> l, id |-> id,
                    due |-> now + YTDLP_TIMEOUT]}
            /\ UNCHANGED cache
       ELSE /\ lookups' = Append(lookups, [new EXCEPT !.pc = "oembed", !.calls = 1])
            /\ ctimers' = ctimers \cup
                  {[kind |-> "oembedTimeout", l |-> l, id |-> id,
                    due |-> now + OEMBED_TIMEOUT]}
            /\ UNCHANGED cache

\* a call of getCachedVideoInfo on its own
GetCachedVideoInfo(id, hasYtDlp) ==
    /\ LookupStarts(id, hasYtDlp)
    /\ UNCHANGED <<now>>
    /\ UNCHANGED fileVars

\* yt-dlp --dump-json answers with JSON that parses
YtDlpAnswers(l) ==
    /\ l \in 1..Len(lookups)
    /\ lookups[l].pc = "ytdlp"
    /\ StoreInfo(l, "rich")
    /\ UNCHANGED <<now>>
    /\ UNCHANGED fileVars

\* yt-dlp fails or its output does not parse: the inner catch, then oEmbed
YtDlpFails(l) ==
    /\ l \in 1..Len(lookups)
    /\ lookups[l].pc = "ytdlp"
    /\ StartOEmbed(l)
    /\ UNCHANGED <<now>>
    /\ UNCHANGED fileVars

\* fetch(oembedUrl) resolves: a non-ok response leaves videoInfo null
OEmbedResponds(l, ok) ==
    /\ l \in 1..Len(lookups)
    /\ lookups[l].pc = "oembed"
    /\ lookups' = IF ok THEN [lookups EXCEPT ![l].pc = "json"]
                  ELSE Returns(l, "null")
    /\ UNCHANGED <<cache, ctimers, now>>
    /\ UNCHANGED fileVars

\* fetch(oembedUrl) rejects: the outer catch returns null
OEmbedFails(l) ==
    /\ l \in 1..Len(lookups)
    /\ lookups[l].pc = "oembed"
    /\ lookups' = Returns(l, "null")
    /\ UNCHANGED <<cache, ctimers, now>>
    /\ UNCHANGED fileVars

\* response.json() settles
OEmbedJson(l, good) ==
    /\ l \in 1..Len(lookups)
    /\ lookups[l].pc = "json"
    /\ IF good THEN StoreInfo(l, "oembed")
       ELSE /\ lookups' = Returns(l, "null")
            /\ UNCHANGED <<cache, ctimers>>
    /\ UNCHANGED <<now>>
    /\ UNCHANGED fileVars

\* a timer of getCachedVideoInfo fires: a timeout rejects its race if the
\* race is still open; an eviction timer deletes the entry of its videoId
CacheTimerFires(t) ==
    /\ t \in ctimers
    /\ t.due <= now
    /\ CASE t.kind = "ytdlpTimeout" ->
              IF lookups[t.l].pc = "ytdlp"
              THEN /\ lookups' = [lookups EXCEPT ![t.l].pc = "oembed",
                                                 ![t.l].calls = @ + 1]
                   /\ ctimers' = (ctimers \ {t}) \cup
                        {[kind |-> "oembedTimeout", l |-> t.l, id |-> t.id,
                          due |-> now + OEMBED_TIMEOUT]}
                   /\ UNCHANGED cache
              ELSE /\ ctimers' = ctimers \ {t}
                   /\ UNCHANGED <<cache, lookups>>
         [] t.kind = "oembedTimeout" ->
              /\ lookups' = IF lookups[t.l].pc = "oembed"
                            THEN Returns(t.l, "null") ELSE lookups
              /\ ctimers' = ctimers \ {t}
              /\ UNCHANGED cache
         [] OTHER ->
              /\ cache' = [k \in (DOMAIN cache) \ {t.id} |-> cache[k]]
              /\ ctimers' = ctimers \ {t}
              /\ UNCHANGED lookups
    /\ UNCHANGED <<now>>
    /\ UNCHANGED fileVars

CacheTick == TickBy(CACHE_TTL, CacheMaxTime)

CacheNext ==
    \/ \E id \in CacheIds : \E hasYtDlp \in BOOLEAN :
          GetCachedVideoInfo(id, hasYtDlp)
    \/ \E l \in 1..MaxLookups : YtDlpAnswers(l)
    \/ \E l \in 1..MaxLookups : YtDlpFails(l)
    \/ \E l \in 1..MaxLookups : \E ok \in BOOLEAN : OEmbedResponds(l, ok)
    \/ \E l \in 1..MaxLookups : OEmbedFails(l)
    \/ \E l \in 1..MaxLookups : \E good \in BOOLEAN : OEmbedJson(l, good)
    \/ \E t \in ctimers : CacheTimerFires(t)
    \/ CacheTick

CacheSpec == Init /\ [][CacheNext]_vars

\* CacheFairSpec: CacheSpec when timers that are due fire and time passes;
\* yt-dlp and the oEmbed server may never answer
CacheFairSpec ==
    /\ CacheSpec
    /\ WF_vars(\E t \in ctimers : CacheTimerFires(t))
    /\ WF_vars(CacheTick)

----------------------------------------------------------------------------
(* POST /api/convert step by step: parse, probe, metadata lookup, answer *)

MaxPosts == 2   \* POST handlers followed step by step

\* the two processes quickEnvironmentCheck spawns
Probes == {"ytdlp", "ffmpeg"}

\* the request arrives: a body that fails ConvertSchema.parse is answered 500
\* from the catch; else quickEnvironmentCheck spawns `yt-dlp --version` and
\* `ffmpeg -version` with execAsync (no timeout option) and awaits both
PostArrives(id, urlOk) ==
    /\ Len(posts) < MaxPosts
    /\ IF ConvertSchema(id, urlOk)
       THEN /\ posts' = Append(posts,
                    [id |-> id, pc |-> "probe", ytdlp |-> "pending",
                     ffmpeg |-> "pending", lookup |-> 0, status |-> 0])
            /\ UNCHANGED <<files, runs, dls, timers, polled, posted,
                           submitted, convs, card, now>>
            /\ UNCHANGED cacheVars
       ELSE /\ PostFinal(id, FALSE, FALSE, FALSE, FALSE)
            /\ posts' = Append(posts,
                    [id |-> id, pc |-> "done", ytdlp |-> "none",
                     ffmpeg |-> "none", lookup |-> 0, status |-> 500])
            /\ UNCHANGED <<convs, card>>

\* a probe process exits: status 0 sets the flag, an error leaves it false
ProbeExits(p, tool, ok) ==
    /\ p \in 1..Len(posts)
    /\ posts[p].pc = "probe"
    /\ posts[p][tool] = "pending"
    /\ posts' = [posts EXCEPT ![p][tool] = IF ok THEN "ok" ELSE "fail"]
    /\ UNCHANGED <<files, runs, dls, timers, polled, posted, submitted,
                   convs, card, now>>
    /\ UNCHANGED cacheVars

\* Promise.allSettled resolves once both probes have settled; the handler
\* goes on to call getCachedVideoInfo with the environment it found
EnvironmentChecked(p) ==
    /\ p \in 1..Len(posts)
    /\ posts[p].pc = "probe"
    /\ \A tool \in Probes : posts[p][tool] # "pending"
    /\ LookupStarts(posts[p].id, posts[p].ytdlp = "ok")
    /\ posts' = [posts EXCEPT ![p].pc = "info", ![p].lookup = Len(lookups) + 1]
    /\ UNCHANGED <<files, runs, dls, timers, polled, posted, submitted,
                   convs, card, now>>

\* getCachedVideoInfo has returned: 400 for null, else the runner is started
\* and quickResponse is returned
PostAnswers(p) ==
    /\ p \in 1..Len(posts)
    /\ posts[p].pc = "info"
    /\ lookups[posts[p].lookup].pc = "done"
    /\ PostFinal(posts[p].id, TRUE, posts[p].ytdlp = "ok",
                 posts[p].ffmpeg = "ok",
                 lookups[posts[p].lookup].result # "null")
    /\ posts' = [posts EXCEPT ![p].pc = "done",
                              ![p].status = posted'.resp.status]
    /\ UNCHANGED <<convs, card>>

HandlerNext ==
    \/ \E id \in CacheIds \cup {""} : \E urlOk \in BOOLEAN : PostArrives(id, urlOk)
    \/ \E p \in 1..MaxPosts : \E tool \in Probes : \E ok \in BOOLEAN :
          ProbeExits(p, tool, ok)
    \/ \E p \in 1..MaxPosts : EnvironmentChecked(p)
    \/ \E p \in 1..MaxPosts : PostAnswers(p)
    \/ \E l \in 1..MaxLookups : YtDlpAnswers(l)
    \/ \E l \in 1..MaxLookups : YtDlpFails(l)
    \/ \E l \in 1..MaxLookups : \E ok \in BOOLEAN : OEmbedResponds(l, ok)
    \/ \E l \in 1..MaxLookups : OEmbedFails(l)
    \/ \E l \in 1..MaxLookups : \E good \in BOOLEAN : OEmbedJson(l, good)
    \/ \E t \in ctimers : CacheTimerFires(t)
    \/ CacheTick

HandlerSpec == Init /\ [][HandlerNext]_vars

\* HandlerFairSpec: HandlerSpec when the handler's own continuations run,
\* timers that are due fire and time passes; the probe processes, yt-dlp and
\* the oEmbed server may never answer
HandlerFairSpec ==
    /\ HandlerSpec
    /\ \A p \in 1..MaxPosts :
          WF_vars(EnvironmentChecked(p)) /\ WF_vars(PostAnswers(p))
    /\ WF_vars(\E t \in ctimers : CacheTimerFires(t))
    /\ WF_vars(CacheTick)

\* ReapSpec: ServeSpec with fewer requests in all
ReapReqs == 2

ReapNext ==
    \/ \E id \in ServeIds \cup {""} : \E urlOk, yt, ff, hasInfo \in BOOLEAN :
          /\ Len(runs) + Len(dls) < ReapReqs
          /\ Post(id, ConvertSchema(id, urlOk), yt, ff, hasInfo)
    \/ \E id \in ServeIds : Len(runs) + Len(dls) < ReapReqs /\ DlFind(id)
    \/ RunnerNext
    \/ ServerNext

ReapSpec == Init /\ [][ReapNext]_vars

\* FairSpec: Spec when the client keeps polling and the runner's own steps
\* are scheduled; the external tool and the online service may never answer
FairSpec ==
    /\ Spec
    /\ \A id \in Ids : WF_vars(Poll(id))
    /\ \A r \in 1..MaxRuns :
          WF_vars(FindAndRenameOutputFile(r) \/ FindActualDownloadedFile(r)
                    \/ Move(r) \/ WriteOpen(r) \/ WriteClose(r))

\* ProbeSpec: one identifier, POST, the runners, GET /progress and GET
\* /download; the external tool also leaves files of the two further
\* extensions that only the download route looks for
ProbeExts == {".aac", ".wav"}

ProbeNext ==
    \/ \E id \in ServeIds \cup {""} : \E urlOk, yt, ff, hasInfo \in BOOLEAN :
          Post(id, ConvertSchema(id, urlOk), yt, ff, hasInfo)
    \/ RunnerNext
    \/ \E r \in 1..MaxRuns : \E ext \in ProbeExts : ToolOpen(r, ext)
    \/ \E id \in ServeIds : Poll(id)
    \/ \E id \in ServeIds : DlFind(id)
    \/ \E d \in 1..MaxReqs : DlRead(d)
    \/ \E d \in 1..MaxReqs : DlStat(d)

ProbeSpec == Init /\ [][ProbeNext]_vars

\* ClientSpec: the page submits one POST and shows the card of its response
\* while the runner works
HandleSubmit(urlOk, yt, ff, hasInfo) ==
    /\ posted.resp.status = 0
    /\ Post("a", ConvertSchema("a", urlOk), yt, ff, hasInfo)

ClientNext ==
    \/ \E urlOk, yt, ff, hasInfo \in BOOLEAN :
          HandleSubmit(urlOk, yt, ff, hasInfo)
    \/ RunnerNext
    \/ CardShown
    \/ PollTimeout
    \/ PollInterval
    \/ \E k \in 1..MaxPolls : \E ok \in BOOLEAN : ProgressHandled(k, ok)
    \/ \E k \in 1..MaxPolls : ProgressDelivered(k)
    \/ HandleDownload
    \/ CardTick

ClientSpec == Init /\ [][ClientNext]_vars

----------------------------------------------------------------------------
(* YouTubeConverter.convertToAudio (src/lib/youtube-converter.ts) *)

MaxConvs == 2   \* calls of convertToAudio

ConvIds       == {"a"}
ConvFormats   == {"mp3", "m4a", "wav"}
ConvQualities == {"128", "320"}

\* the default value of the options parameter
DefaultOptions == [quality |-> "320", format |-> "mp3"]

\* the options a caller passes, or leaves to the default
ConvOptions ==
    {DefaultOptions} \cup
    {[quality |-> q, format |-> f] : q \in ConvQualities, f \in ConvFormats}

\* path.join(tempDir, `${videoId}_temp`), without any extension
TempVideoPath(id) == id \o "_temp"

\* path.join(tempDir, `${videoId}.${options.format}`)
OutputPath(id, format) == id \o "." \o format

\* the extensions youtube-dl fills into `${outputPath}.%(ext)s`: ".mp3" when
\* audio extraction to mp3 is asked for, else the container of the stream
\* the format selector picked
YtdlExts(format) == IF format = "mp3" THEN {".mp3"} ELSE {".m4a", ".opus"}

\* the condition of step 2
NeedsFFmpeg(options) == options.format # "mp3" \/ options.quality # "320"

PossibleExtensions == <<".m4a", ".webm", ".mp4", ".mp3">>

\* cleanup(paths): every listed path that exists is removed
Cleanup(fs, paths) == [q \in (DOMAIN fs) \ paths |-> fs[q]]

\* the catch block of convertToAudio
CatchCleanup(fs, c) ==
    Cleanup(fs, {TempVideoPath(convs[c].id), convs[c].out})

ConvUnchanged ==
    /\ UNCHANGED <<runs, dls, timers, polled, posted, submitted, now, posts,
                   card>>
    /\ UNCHANGED cacheVars

\* a call of convertToAudio: the two paths are computed, downloadAudio starts
ConvertToAudio(id, options) ==
    /\ Len(convs) < MaxConvs
    /\ convs' = Append(convs, [id |-> id, options |-> options,
                               pc |-> "download", input |-> "",
                               out |-> OutputPath(id, options.format)])
    /\ UNCHANGED files
    /\ ConvUnchanged

\* youtube-dl exits with code 0, its file written; step 2 is skipped for
\* (mp3, 320) and the call resolves with outputPath
DownloadAudio(c, ext) ==
    /\ c \in 1..Len(convs)
    /\ convs[c].pc = "download"
    /\ ext \in YtdlExts(convs[c].options.format)
    /\ files' = PutFile(files, TempVideoPath(convs[c].id) \o ext,
                        [run |-> c, bytes |-> 1, src |-> "ytdl"])
    /\ convs' = [convs EXCEPT ![c].pc = IF NeedsFFmpeg(convs[c].options)
                                        THEN "convert" ELSE "resolved"]
    /\ ConvUnchanged

\* youtube-dl fails: the catch block cleans up and rethrows
DownloadAudioFails(c) ==
    /\ c \in 1..Len(convs)
    /\ convs[c].pc = "download"
    /\ files' = CatchCleanup(files, c)
    /\ convs' = [convs EXCEPT ![c].pc = "rejected"]
    /\ ConvUnchanged

\* convertWithFFmpeg looks for its input; without one it rejects and the
\* catch block runs
ConvertWithFFmpeg(c) ==
    /\ c \in 1..Len(convs)
    /\ convs[c].pc = "convert"
    /\ LET ext == FirstExisting(files, TempVideoPath(convs[c].id),
                                PossibleExtensions) IN
        IF ext = ""
        THEN /\ files' = CatchCleanup(files, c)
             /\ convs' = [convs EXCEPT ![c].pc = "rejected"]
        ELSE /\ files' = files
             /\ convs' = [convs EXCEPT
                               ![c].pc = "ffmpeg",
                               ![c].input = TempVideoPath(convs[c].id) \o ext]
    /\ ConvUnchanged

\* ffmpeg ends: the output is saved, the "end" handler starts
FFmpegEnd(c) ==
    /\ c \in 1..Len(convs)
    /\ convs[c].pc = "ffmpeg"
    /\ files' = PutFile(files, convs[c].out,
                        [run |-> c, bytes |-> 1, src |-> "ffmpeg"])
    /\ convs' = [convs EXCEPT ![c].pc = "cleanup"]
    /\ ConvUnchanged

\* the "end" handler removes the input and resolves
FFmpegEndCleanup(c) ==
    /\ c \in 1..Len(convs)
    /\ convs[c].pc = "cleanup"
    /\ files' = Cleanup(files, {convs[c].input})
    /\ convs' = [convs EXCEPT ![c].pc = "resolved"]
    /\ ConvUnchanged

\* ffmpeg reports an error, a partial output possibly written: the catch
\* block removes tempVideoPath and outputPath
FFmpegError(c, partial) ==
    /\ c \in 1..Len(convs)
    /\ convs[c].pc = "ffmpeg"
    /\ files' = CatchCleanup(
                    IF partial
                    THEN PutFile(files, convs[c].out,
                                 [run |-> c, bytes |-> 0, src |-> "ffmpeg"])
                    ELSE files, c)
    /\ convs' = [convs EXCEPT ![c].pc = "rejected"]
    /\ ConvUnchanged

ConvNext ==
    \/ \E id \in ConvIds : \E options \in ConvOptions :
          ConvertToAudio(id, options)
    \/ \E c \in 1..MaxConvs : \E ext \in {".mp3", ".m4a", ".opus"} :
          DownloadAudio(c, ext)
    \/ \E c \in 1..MaxConvs : DownloadAudioFails(c)
    \/ \E c \in 1..MaxConvs : ConvertWithFFmpeg(c)
    \/ \E c \in 1..MaxConvs : FFmpegEnd(c)
    \/ \E c \in 1..MaxConvs : FFmpegEndCleanup(c)
    \/ \E c \in 1..MaxConvs : \E partial \in BOOLEAN : FFmpegError(c, partial)

ConvSpec == Init /\ [][ConvNext]_vars

----------------------------------------------------------------------------
(* Properties *)

KnownExts == {DownloadExts[i] : i \in 1..Len(DownloadExts)}

ArtifactsOf(id) == {e \in KnownExts : CanonPath(id, e) \in DOMAIN files}

\* C1 (as claimed): in every reachable state, for every identifier, at most
\* one file {id}.{ext} with a known extension exists.
C1_AtMostOneArtifact ==
    \A id \in Ids : Cardinality(ArtifactsOf(id)) <= 1

\* runner r is still writing the file at path p
Writing(r, p) ==
    /\ runs[r].pc \in {"toolwrite", "writing"}
    /\ p \in DOMAIN files
    /\ files[p].run = r

\* C2 (as claimed): whenever GET /progress/{id} reports ready:true, no runner
\* for that id is still writing the file it reports.
C2_ReadyOnlyWhenFinal ==
    \A id \in Ids :
        LET ext == FirstExisting(files, id, ProgressExts) IN
        ProgressResp(files, id).ready =>
            ~ \E r \in 1..Len(runs) :
                runs[r].id = id /\ Writing(r, CanonPath(id, ext))

\* run r's bytes are in the temp directory, fully written
Produced(r) == \E p \in DOMAIN files : files[p].run = r /\ IsFull(files[p])

\* the byte length of the artifact that finished run r produced
ArtifactLen(r) == FullLen([run |-> r, bytes |-> 0, src |-> runs[r].src])

\* C3 (as claimed): after a runner for id has completed successfully, a
\* caller that keeps polling GET /progress/{id} eventually receives
\* ready:true with the size of the artifact that runner produced.
C3_EventuallyReadyWithSize ==
    \A r \in 1..MaxRuns :
        (r <= Len(runs) /\ runs[r].pc = "done" /\ Produced(r))
            ~> (/\ r <= Len(runs)
                /\ polled.id = runs[r].id
                /\ polled.resp.ready
                /\ polled.resp.size = ArtifactLen(r))

\* C4 (as claimed): for every identifier never submitted to POST /convert,
\* GET /progress/{id} returns exists:false in every reachable state.
C4_NeverSubmittedNotExists ==
    \A id \in Ids : id \notin submitted => ~ ProgressResp(files, id).exists

Served200(d) == dls[d].pc = "done" /\ dls[d].status = 200

\* C5 (as claimed): if GET /download/{id} succeeds, a second GET
\* /download/{id} issued after it and within the cleanup delay of it also
\* succeeds and returns the same bytes.
C5_SecondDownloadSame ==
    \A d1, d2 \in 1..Len(dls) :
        ( /\ d1 \in dls[d2].seen
          /\ Served200(d1)
          /\ dls[d2].id = dls[d1].id
          /\ dls[d2].pc = "done"
          /\ dls[d2].issuedAt < dls[d1].servedAt + CLEANUP_DELAY )
        => (dls[d2].status = 200 /\ dls[d2].body = dls[d1].body)

\* the bytes of run r are somewhere in the temp directory
InStorage(r) == \E p \in DOMAIN files : files[p].run = r

\* C6 (as claimed): once the cleanup delay has elapsed after a successful
\* GET /download/{id}, the artifact it served is absent from storage and a
\* later GET /download/{id} returns 404.
C6_GoneAfterGrace ==
    \A d1 \in 1..Len(dls) :
        (Served200(d1) /\ now > dls[d1].servedAt + CLEANUP_DELAY)
        => /\ ~ InStorage(dls[d1].body.run)
           /\ \A d2 \in 1..Len(dls) :
                ( /\ d1 \in dls[d2].seen
                  /\ dls[d2].id = dls[d1].id
                  /\ dls[d2].pc = "done"
                  /\ dls[d2].issuedAt > dls[d1].servedAt + CLEANUP_DELAY )
                => dls[d2].status = 404

\* C7 (as claimed): every artifact a runner produced is removed from storage
\* once a fixed grace period has passed, downloaded or not.
C7_RemovedAfterGrace ==
    \A r \in 1..Len(runs) :
        (runs[r].pc = "done" /\ now > runs[r].doneAt + CLEANUP_DELAY)
        => ~ InStorage(r)

\* the file at p is renamed in this step
Moved(p) ==
    \E q \in (DOMAIN files') \ (DOMAIN files) : files'[q] = files[p]

\* C7 (amended): a file leaves the temp directory only by a rename or by the
\* cleanup timer that a GET /download/{id} which answered 200 set for the
\* very path it served, and that timer fires one cleanup delay after that
\* response; nothing removes a file because a run produced it. So an artifact
\* whose path is never served stays in storage.
C7_RemovedOnlyByServeTimer ==
    [][\A p \in DOMAIN files :
          p \notin DOMAIN files' =>
             \/ Moved(p)
             \/ \E t \in timers \ timers' :
                   /\ t.path = p
                   /\ Served200(t.by)
                   /\ dls[t.by].path = p
                   /\ t.due = dls[t.by].servedAt + CLEANUP_DELAY
                   /\ now >= t.due]_vars

\* C7 witness: a finished run's artifact is still in storage after more than
\* the cleanup delay, and nothing was ever downloaded
C7_Witness ==
    \E r \in 1..Len(runs) :
        /\ runs[r].pc = "done"
        /\ now > runs[r].doneAt + CLEANUP_DELAY
        /\ InStorage(r)
        /\ dls = <<>>

\* a successful download has served bytes of run r
ServedRun(r) == \E d \in 1..Len(dls) : Served200(d) /\ dls[d].body.run = r

\* C8 (as claimed): the reaper destroys an artifact only after that artifact
\* has been served: when a cleanup timer removes a file, bytes of the run
\* that wrote the file have been served by a successful GET /download/{id}.
C8_ReapedOnlyIfServed ==
    [][\A p \in DOMAIN files :
          (p \notin DOMAIN files' /\ timers' # timers /\ timers' \subseteq timers)
          => ServedRun(files[p].run)]_vars

\* C9 (as claimed): of two lookups for the same id that start within one
\* hour of each other, the second returns what the first returned and invokes
\* neither source, whatever the interleaving and also when the first
\* returned null.
C9_SecondLookupCached ==
    \A l1, l2 \in 1..Len(lookups) :
        ( /\ l1 < l2
          /\ lookups[l1].id = lookups[l2].id
          /\ lookups[l1].pc = "done"
          /\ lookups[l2].pc = "done"
          /\ lookups[l2].startedAt <= lookups[l1].startedAt + CACHE_TTL )
        => (lookups[l2].result = lookups[l1].result /\ lookups[l2].calls = 0)

\* C9 (amended): a lookup that starts while the cache holds an entry for its
\* id returns that entry without invoking yt-dlp or oEmbed; the entry is the
\* non-null result of the lookup for the same id that stored last, stored at
\* most one hour before. A lookup that starts while the cache holds no entry
\* for its id (none stored yet, the earlier result was null, or an eviction
\* timer has fired) invokes a source again.
C9_HitReturnsStoredEntry ==
    /\ [][Len(lookups') = Len(lookups) + 1 =>
            LET l2 == lookups'[Len(lookups')] IN
            IF l2.id \in DOMAIN cache
            THEN /\ l2.pc = "done" /\ l2.hit /\ l2.calls = 0
                 /\ l2.result = cache[l2.id].info
                 /\ l2.result # "null"
                 /\ lookups[cache[l2.id].by].id = l2.id
                 /\ lookups[cache[l2.id].by].result = l2.result
                 /\ now <= cache[l2.id].at + CACHE_TTL
            ELSE ~ l2.hit /\ l2.calls = 1 /\ l2.pc # "done"]_vars
    /\ [](\A l \in 1..Len(lookups) :
            lookups[l].hit => (lookups[l].calls = 0 /\ lookups[l].pc = "done"))

\* C9 witness: a later lookup was answered from the entry an earlier lookup
\* for the same id had stored
C9_Witness ==
    \E l1, l2 \in 1..Len(lookups) :
        /\ l1 < l2
        /\ lookups[l2].hit
        /\ lookups[l2].from = l1
        /\ lookups[l2].startedAt > lookups[l1].startedAt
        /\ lookups[l2].result = lookups[l1].result

\* C10 (as claimed): a cache entry lives exactly one hour from the moment it
\* is stored: it is not evicted before (whatever eviction timers are
\* pending) and it is gone for every lookup after.
C10_ExactTtl ==
    /\ [][\A id \in DOMAIN cache :
            id \notin DOMAIN cache' => now >= cache[id].at + CACHE_TTL]_vars
    /\ [](\A id \in DOMAIN cache : now <= cache[id].at + CACHE_TTL)

\* the strategy each label of quickEnvironmentCheck stands for
StrategyNamed(type) ==
    CASE type = "full"       -> 1
      [] type = "ytdlp-only" -> 2
      [] type = "online"     -> 3
      [] OTHER               -> 0

\* C11: the strategy a run is dispatched to is fixed by the two capability
\* flags alone: (yt-dlp, ffmpeg) gives 1, (yt-dlp, no ffmpeg) gives 2, no
\* yt-dlp gives 3 with or without ffmpeg; the run executes the steps of that
\* strategy, and the environment label names the same strategy.
C11_StrategyByFlags ==
    /\ \A r \in 1..Len(runs) :
          LET yt == runs[r].hasYtDlp
              ff == runs[r].hasFFmpeg IN
          /\ (yt /\ ff) => runs[r].strategy = 1
          /\ (yt /\ ~ ff) => runs[r].strategy = 2
          /\ (~ yt) => runs[r].strategy = 3
          /\ runs[r].pc \in {"exec", "toolwrite", "find", "move"}
                => runs[r].strategy \in {1, 2}
          /\ runs[r].pc \in {"race", "write", "writing"}
                => runs[r].strategy = 3
          /\ StrategyNamed(runs[r].type) = runs[r].strategy
    /\ \A r1, r2 \in 1..Len(runs) :
          ( /\ runs[r1].hasYtDlp = runs[r2].hasYtDlp
            /\ runs[r1].hasFFmpeg = runs[r2].hasFFmpeg )
          => ( /\ runs[r1].strategy = runs[r2].strategy
               /\ runs[r1].type = runs[r2].type )

\* C11 witness: one run was dispatched to strategy 2 for (yt-dlp, no
\* ffmpeg) and another to strategy 3 for (no yt-dlp, ffmpeg)
C11_Witness ==
    \E r1, r2 \in 1..Len(runs) :
        /\ runs[r1].hasYtDlp /\ ~ runs[r1].hasFFmpeg
        /\ runs[r1].strategy = 2 /\ runs[r1].type = "ytdlp-only"
        /\ ~ runs[r2].hasYtDlp /\ runs[r2].hasFFmpeg
        /\ runs[r2].strategy = 3 /\ runs[r2].type = "online"

\* a step of runner r
RunnerActs(r) == r <= Len(runs) /\ Len(runs') = Len(runs) /\ runs'[r] # runs[r]

\* C12: the response of a POST that started a runner is 200 "processing"
\* and is already given when the runner has only been started; it stays that
\* response while the runner runs, after it finished and after it failed, and
\* no step of a runner, its failure included, changes a response.
C12_ResponseNeverWaits ==
    /\ [](\A r \in 1..Len(runs) :
            posted.run = r =>
                posted.resp = [status |-> 200, id |-> runs[r].id,
                               state |-> "processing"])
    /\ [][Len(runs') = Len(runs) + 1 =>
            /\ posted'.run = Len(runs')
            /\ runs'[Len(runs')].pc \in {"exec", "race"}]_vars
    /\ [][(\E r \in 1..MaxRuns : RunnerActs(r)) => posted' = posted]_vars

\* C12 witness: the runner a POST started has failed, and the response to
\* that POST is the 200 "processing" it was
C12_Witness ==
    \E r \in 1..Len(runs) :
        /\ posted.run = r
        /\ runs[r].pc = "failed"
        /\ posted.resp.status = 200
        /\ posted.resp.state = "processing"

\* C13: a runner is started only by a POST whose body passed validation and
\* whose metadata lookup returned non-null; a POST that fails either answers
\* an error (500 for the body, 400 for the metadata), starts no runner and
\* leaves the temp directory as it was.
C13_NoRunnerUnlessValidated ==
    /\ [][Len(runs') # Len(runs) =>
            /\ posted'.valid /\ posted'.hasInfo
            /\ posted'.id # ""
            /\ runs'[Len(runs')].id = posted'.id]_vars
    /\ [][(posted' # posted /\ ~ (posted'.valid /\ posted'.hasInfo)) =>
            /\ posted'.resp.status = IF posted'.valid THEN 400 ELSE 500
            /\ posted'.resp.state = "error"
            /\ posted'.run = 0
            /\ runs' = runs
            /\ files' = files]_vars

\* C13 witness: with files of an earlier run in the temp directory, a POST
\* whose metadata lookup returned null was answered 400 and started nothing
C13_Witness ==
    /\ posted.valid /\ ~ posted.hasInfo
    /\ posted.resp.status = 400
    /\ posted.run = 0
    /\ Len(runs) = 1
    /\ files # <<>>

\* run q has not created a file yet
NotWritten(q) == runs[q].pc \in {"exec", "race", "write"}

\* C14 (as claimed): when the runner for id has failed, no artifact of id
\* existed before it (no other run has written a file) and no later request
\* for id was made, GET /progress/{id} answers exists:false, ready:false.
C14_FailedNeverReady ==
    \A r \in 1..Len(runs) :
        ( /\ runs[r].pc = "failed"
          /\ \A q \in 1..Len(runs) :
                q # r => (NotWritten(q) /\ (q > r => runs[q].id # runs[r].id)) )
        => ( /\ ~ ProgressResp(files, runs[r].id).exists
             /\ ~ ProgressResp(files, runs[r].id).ready )

\* C15 (as claimed): on every state of the temp directory, GET /progress/{id}
\* reports exists:true exactly when a file {id}.{ext} of one of the six known
\* extensions exists, which is exactly when GET /download/{id} finds a file,
\* and the format it reports is the extension of the file GET /download/{id}
\* serves.
C15_ProbesAgree ==
    \A id \in ServeIds :
        LET pr == ProgressResp(files, id)
            p  == FindVideoFile(files, id) IN
        /\ pr.exists <=> (ArtifactsOf(id) # {})
        /\ pr.exists <=> (p # "")
        /\ pr.exists => (p = id \o "." \o pr.format)

\* C16 (as claimed): when every request is for the same id and every earlier
\* run has ended, a run whose external tool has fully written its output
\* does not fail, and when it ends successfully a canonical path of its id
\* holds that run's output.
C16_FreshRunOverwrites ==
    [][\A r \in 1..MaxRuns :
          ( /\ RunnerActs(r)
            /\ \A q \in 1..Len(runs) :
                  /\ runs[q].id = runs[r].id
                  /\ q # r => runs[q].pc \in {"done", "failed"}
            /\ runs[r].pc \in {"find", "move"}
            /\ Produced(r) )
          => /\ runs'[r].pc # "failed"
             /\ runs'[r].pc = "done"
                    => \E e \in KnownExts :
                          /\ CanonPath(runs[r].id, e) \in DOMAIN files'
                          /\ files'[CanonPath(runs[r].id, e)].run = r]_vars

\* the names fastDownloadOriginal makes the tool write for id
TempPathsOf(id) == {TempPath(id, e) : e \in KnownExts}

\* C17 (as claimed): after a run for id has failed, the temp directory holds
\* no file of that run under a temporary name {id}_temp.{ext} and no file of
\* that run that was not fully written.
C17_FailedLeavesNothing ==
    \A r \in 1..Len(runs) :
        runs[r].pc = "failed" =>
            ~ \E p \in DOMAIN files :
                /\ files[p].run = r
                /\ (p \in TempPathsOf(runs[r].id) \/ ~ IsFull(files[p]))

\* C18 (as claimed): a strategy 3 run never fails, and when it ends a file
\* is at {id}.mp3: the bytes of the service if it succeeded, the placeholder
\* audio only if it failed.
C18_OnlineEndsWithFile ==
    [][\A r \in 1..MaxRuns :
          (RunnerActs(r) /\ runs[r].strategy = 3) =>
             /\ runs'[r].pc # "failed"
             /\ runs'[r].pc = "done" =>
                   /\ runs'[r].src \in {"cobalt", "demo"}
                   /\ CanonPath(runs[r].id, ".mp3") \in DOMAIN files']_vars

\* lookup l settles in this step
Settles(l) == lookups[l].pc # "done" /\ lookups'[l].pc = "done"

\* C19: a lookup that misses the cache asks yt-dlp first exactly when yt-dlp
\* is available, else oEmbed; when yt-dlp fails or times out it asks oEmbed;
\* it returns null only from the oEmbed step, that is after every source it
\* could ask has failed, and returns the info of the first source that
\* answered otherwise; it always settles with an info or null; null is never
\* stored in the cache.
C19_FallbackThenNull ==
    /\ [][Len(lookups') = Len(lookups) + 1 =>
            LET n == lookups'[Len(lookups')] IN
            ~ n.hit => /\ n.calls = 1
                       /\ n.pc = IF n.hasYtDlp THEN "ytdlp" ELSE "oembed"]_vars
    /\ [][\A l \in 1..Len(lookups) :
            /\ (lookups[l].pc = "ytdlp" /\ lookups'[l].pc # "ytdlp") =>
                  \/ /\ lookups'[l].pc = "done"
                     /\ lookups'[l].result = "rich"
                     /\ lookups'[l].calls = 1
                  \/ /\ lookups'[l].pc = "oembed"
                     /\ lookups'[l].calls = 2
            /\ (Settles(l) /\ lookups'[l].result = "null") =>
                  /\ lookups[l].pc \in {"oembed", "json"}
                  /\ lookups[l].calls = IF lookups[l].hasYtDlp THEN 2 ELSE 1
                  /\ cache' = cache
            /\ (Settles(l) /\ lookups'[l].result # "null") =>
                  /\ lookups'[l].result \in {"rich", "oembed"}
                  /\ lookups'[l].result = "rich" <=> lookups[l].pc = "ytdlp"
                  /\ lookups[l].id \in DOMAIN cache'
                  /\ cache'[lookups[l].id].info = lookups'[l].result]_vars
    /\ [](\A id \in DOMAIN cache : cache[id].info \in {"rich", "oembed"})
    /\ [](\A l \in 1..Len(lookups) :
            lookups[l].pc = "done" =>
                lookups[l].result \in {"rich", "oembed", "null"})

\* C19 witness: with yt-dlp available, a lookup asked both sources, both
\* failed, it returned null and the cache holds nothing
C19_Witness ==
    \E l \in 1..Len(lookups) :
        /\ lookups[l].hasYtDlp
        /\ lookups[l].pc = "done"
        /\ ~ lookups[l].hit
        /\ lookups[l].calls = 2
        /\ lookups[l].result = "null"
        /\ cache = <<>>

\* the canonical artifact paths of id
CanonPathsOf(id) == {CanonPath(id, e) : e \in KnownExts}

\* the file at p is the same before and after the step
SameFile(p) ==
    /\ (p \in DOMAIN files) <=> (p \in DOMAIN files')
    /\ p \in DOMAIN files => files'[p] = files[p]

\* C20 (as claimed): no step of a runner for an identifier creates,
\* overwrites, moves or deletes a file at a canonical artifact path {b}.{ext}
\* of a different identifier b.
C20_WritesNamespaced ==
    [][\A r \in 1..MaxRuns :
          RunnerActs(r) =>
             \A b \in Ids \ {runs[r].id} :
                \A p \in CanonPathsOf(b) : SameFile(p)]_vars

\* C21 (as claimed): a POST whose body is valid eventually gets past
\* quickEnvironmentCheck, also when a probe process never terminates.
C21_ProbesBounded ==
    \A p \in 1..MaxPosts :
        (p <= Len(posts) /\ posts[p].pc = "probe")
            ~> (p <= Len(posts) /\ posts[p].pc # "probe")

\* C22 (as claimed): every call of getCachedVideoInfo eventually returns,
\* also when yt-dlp never terminates and the oEmbed request never completes
\* (stated for the calls made at time 0, whose timers the clock covers).
C22_LookupReturns ==
    \A l \in 1..MaxLookups :
        (l <= Len(lookups) /\ lookups[l].startedAt = 0)
            ~> (l <= Len(lookups) /\ lookups[l].pc = "done")

\* C23 (as claimed): when only strategy 3 runs exist, so that nothing but a
\* cleanup timer removes a file, every GET /download/{id} ends with 200 or
\* 404, never with a server error.
C23_DownloadToleratesReaper ==
    (\A r \in 1..Len(runs) : runs[r].strategy = 3) =>
        \A d \in 1..Len(dls) :
            dls[d].pc = "done" => dls[d].status \in {200, 404}

\* the Content-Type the spec maps to each extension
MimeOf(ext) ==
    CASE ext = ".mp3"  -> "audio/mpeg"
      [] ext = ".m4a"  -> "audio/mp4"
      [] ext = ".webm" -> "audio/webm"
      [] ext = ".opus" -> "audio/opus"
      [] ext = ".aac"  -> "audio/aac"
      [] OTHER         -> "audio/wav"

\* C24 (as claimed): in every 200 response of GET /download/{id} the
\* Content-Length equals the length of the body sent and the Content-Type is
\* the one of the served file's extension.
C24_LengthMatchesBody ==
    \A d \in 1..Len(dls) :
        Served200(d) =>
            /\ dls[d].size = dls[d].body.bytes
            /\ dls[d].ctype = MimeOf(dls[d].ext)

\* C25: the list of runners grows only by one at a time and only in the step
\* of a POST that passed validation and resolved metadata; every such POST
\* adds one runner at its first step, whatever the other runners (of the same
\* id too) are doing, and leaves them as they are; a runner never returns to
\* its first step and one that ended, failed or not, never moves again.
C25_OneRunnerPerPost ==
    /\ [][Len(runs') # Len(runs) =>
            /\ Len(runs') = Len(runs) + 1
            /\ posted'.run = Len(runs')
            /\ posted'.valid /\ posted'.hasInfo
            /\ \A r \in 1..Len(runs) : runs'[r] = runs[r]]_vars
    /\ [][(posted' # posted /\ posted'.valid /\ posted'.hasInfo) =>
            /\ Len(runs') = Len(runs) + 1
            /\ runs'[Len(runs')].id = posted'.id
            /\ runs'[Len(runs')].pc \in {"exec", "race"}]_vars
    /\ [][\A r \in 1..Len(runs) :
            /\ runs'[r].pc \in {"exec", "race"} => runs'[r].pc = runs[r].pc
            /\ runs[r].pc \in {"done", "failed"} => runs'[r] = runs[r]]_vars

\* C25 witness: a second POST for the same id started a second runner while
\* the first was in flight; one of them has failed and stays failed while
\* the other is writing
C25_Witness ==
    \E r1, r2 \in 1..Len(runs) :
        /\ r1 # r2
        /\ runs[r1].id = runs[r2].id
        /\ runs[r1].pc = "failed"
        /\ runs[r2].pc \in {"toolwrite", "writing"}
        /\ posted.run = Len(runs)

\* C26: once the runner a POST started has finished, with no other runner
\* ever started, the format GET /progress reports for the id (the extension
\* of the artifact the runner left) is the format the POST response
\* announced, whatever the two capability flags and the extension the tool
\* chose.
C26_AnnouncedFormatIsProduced ==
    \A r \in 1..Len(runs) :
        (/\ Len(runs) = 1
         /\ posted.run = r
         /\ runs[r].pc = "done"
         /\ ProgressResp(files, runs[r].id).exists) =>
            ProgressResp(files, runs[r].id).format = posted.format

\* every `${videoId}_temp.*` name the converter's tool can leave
ConvTempPaths(id) ==
    {TempVideoPath(id) \o ext : ext \in {".mp3", ".m4a", ".opus"}}

\* C27: at the step in which a call of convertToAudio resolves, no other call
\* having been made, a file exists at the returned path and no
\* {videoId}_temp.* file remains, for every format and quality, the default
\* (mp3, 320) included.
C27_ResolvedLeavesOutputOnly ==
    [][\A c \in 1..Len(convs) :
        (/\ Len(convs) = 1
         /\ convs[c].pc # "resolved"
         /\ convs'[c].pc = "resolved") =>
            /\ convs'[c].out \in DOMAIN files'
            /\ ConvTempPaths(convs'[c].id) \cap DOMAIN files' = {}]_vars

\* C28: the card of a "processing" response starts with fileReady false;
\* fileReady becomes true only in the step that delivers a response with
\* ready:true, and a download starts only when it is true; from then on no
\* timer is pending, no further fetch is sent and fileReady stays true;
\* while it is false one timer is pending, due within 3 seconds, and every
\* fetch is sent by a timer at its deadline, which sets the next one 3
\* seconds ahead: there is no step that gives up.
C28_CardPollsUntilReady ==
    /\ [][(~ card.shown /\ card'.shown) => ~ card'.fileReady]_vars
    /\ [][(card'.fileReady /\ ~ card.fileReady /\ card.shown) =>
            /\ card'.got.ok /\ card'.got.ready
            /\ Len(card'.inflight) = Len(card.inflight) - 1]_vars
    /\ [][(card'.downloading /\ ~ card.downloading) => card.fileReady]_vars
    /\ [][card.fileReady =>
            /\ card'.fileReady
            /\ card'.sent = card.sent
            /\ card'.timeout = -1 /\ card'.interval = -1]_vars
    /\ [][(card.shown /\ card'.sent # card.sent) =>
            /\ card'.sent = card.sent + 1
            /\ now \in {card.timeout, card.interval}
            /\ ~ card'.fileReady
            /\ card'.interval = now + POLL_EVERY]_vars
    /\ [](card.shown /\ ~ card.fileReady =>
            /\ Cardinality(CardDeadlines) = 1
            /\ \A d \in CardDeadlines : d >= now /\ d <= now + POLL_EVERY)

\* C28 witness: the card polled, got a response without readiness, polled
\* again, got ready:true and stopped: nothing is pending or in flight
C28_Witness ==
    /\ card.shown
    /\ card.fileReady
    /\ card.sent >= 2
    /\ card.got.ready
    /\ card.interval = -1
    /\ card.inflight = <<>>
    /\ card.downloading

====
